---------------------------- MODULE Spec2Model ----------------------------
(***************************************************************************)
(* Task Prioritizer: the task collection, its two storage regimes and the  *)
(* filter / sort / statistics pipeline.                                    *)
(*                                                                         *)
(* The repository holds two versions of the application component:         *)
(*   build = "local"  src/src/App.jsx        (localStorage only)           *)
(*   build = "cloud"  src/unnamed/part_000   (Firestore through the hooks  *)
(*                    of src/unnamed/part_003 and src/unnamed/part_001)    *)
(* A JavaScript object is a function from field names to strings; a field  *)
(* that is absent is not in its domain, a field that is present with the   *)
(* value undefined holds Undefined.                                        *)
(***************************************************************************)
EXTENDS Integers, Sequences, FiniteSets, TLC

VARIABLES
    build,          \* which application component runs
    mounted,        \* the mount effects have run
    user,           \* useAuth(): the signed-in uid, or NoUser
    tasks,          \* the in-memory collection (useState / useTasks)
    editing,        \* App.jsx: the task being edited, as its id, or NoId
    showForm,       \* the task form is open
    store,          \* localStorage[STORAGE_KEY]
    download,       \* the file written by the last exportJSON
    remote,         \* Firestore: users/{uid}/tasks, doc id -> doc data
    pending,        \* writes sent to Firestore and not yet settled
    sub,            \* the live subscription of useTasks: uid or NoUser
    fetching,       \* fallback getDocs in flight: how many, for each uid
    taskSource,     \* where the in-memory collection was last set from
    alertMsg,       \* the alert() the last handler raised, "" when none
    now,            \* the clock read by new Date()
    q, priorityFilter, statusFilter, sortBy, sortDir,   \* view parameters
    hist,           \* the last handler that wrote tasks or sent a write
    outcome,        \* how the last write ended and who was told
    online,         \* SyncStatus: navigator.onLine as the online / offline events report it
    syncing,        \* SyncStatus: hasPendingWrites of the last snapshot its listener got
    syncSeen,       \* SyncStatus: the documents of the last snapshot its listener got
    boot,           \* the startup sequence: which effect runs next, the state updates queued
    ops             \* how many operations, channel failures and ticks have happened

vars == <<build, mounted, user, tasks, editing, showForm, store, download,
          remote, pending, sub, fetching, taskSource, alertMsg, now,
          q, priorityFilter, statusFilter, sortBy, sortDir, hist, outcome,
          online, syncing, syncSeen, boot, ops>>

viewVars == <<q, priorityFilter, statusFilter, sortBy, sortDir>>
cloudVars == <<user, remote, pending, sub, fetching>>
syncVars == <<online, syncing, syncSeen>>

(***************************************************************************)
(* Bounds                                                                  *)
(***************************************************************************)
MaxOps == 4         \* user operations, channel failures and clock ticks in one session
MaxLen == 4         \* SpecQuery: the longest persisted collection

(***************************************************************************)
(* Values                                                                  *)
(***************************************************************************)
Undefined == "<undefined>"
NoUser == "<null>"
NoId == "<none>"
Users == {"u1", "u2"}

Priorities == <<"Low", "Normal", "High", "Urgent">>
Statuses == <<"Todo", "In Progress", "Done">>
PRIORITY_ORDER == ("Low" :> 0) @@ ("Normal" :> 1) @@ ("High" :> 2) @@ ("Urgent" :> 3)
STATUS_ORDER == ("Todo" :> 0) @@ ("In Progress" :> 1) @@ ("Done" :> 2)

Range(s) == {s[i] : i \in DOMAIN s}

\* o.k : undefined when the field is absent
Get(o, k) == IF k \in DOMAIN o THEN o[k] ELSE Undefined

\* { ...a, ...b }
Spread(a, b) == [k \in DOMAIN a \cup DOMAIN b |-> IF k \in DOMAIN b THEN b[k] ELSE a[k]]

\* JavaScript truthiness of a string, undefined or null; "#n" stands for the
\* JSON number n
Truthy(v) == v \notin {Undefined, NoUser, "", "#0"}

\* the JSON value []: truthy, and String([]) is the empty string
EmptyArray == "#[]"

\* String(v)
String(v) ==
    IF v = EmptyArray THEN ""
    ELSE IF Len(v) > 0 /\ SubSeq(v, 1, 1) = "#" THEN SubSeq(v, 2, Len(v))
    ELSE v

Clock == 0 .. MaxOps

\* new Date(n).toISOString()
toISOString(n) == "T" \o ToString(n)

\* JavaScript numbers: <<"num", n>>, <<"inf", 1>>, <<"inf", -1>>, <<"nan", 0>>
Num(n) == <<"num", n>>
Infinity == <<"inf", 1>>
NaN == <<"nan", 0>>

DueDates == <<"2024-05-01", "2024-05-02">>

\* new Date(s).getTime(): the instant of a date string, NaN when it does not parse
getTime(s) ==
    IF \E n \in Clock : toISOString(n) = s
    THEN Num(CHOOSE n \in Clock : toISOString(n) = s)
    ELSE IF \E i \in DOMAIN DueDates : DueDates[i] = s
    THEN Num(CHOOSE i \in DOMAIN DueDates : DueDates[i] = s)
    ELSE NaN

\* x - y on JavaScript numbers
Minus(x, y) ==
    IF x[1] = "nan" \/ y[1] = "nan" THEN NaN
    ELSE IF x[1] = "inf" /\ y[1] = "inf" THEN (IF x[2] = y[2] THEN NaN ELSE x)
    ELSE IF x[1] = "inf" THEN x
    ELSE IF y[1] = "inf" THEN <<"inf", -y[2]>>
    ELSE Num(x[2] - y[2])

\* -x
Negate(x) == IF x[1] = "nan" THEN x ELSE <<x[1], -x[2]>>

\* how Array.prototype.sort reads a comparator result: NaN counts as +0
Sign(x) == IF x[1] = "nan" THEN 0 ELSE IF x[2] > 0 THEN 1 ELSE IF x[2] < 0 THEN -1 ELSE 0

\* PRIORITY_ORDER[k]: undefined (NaN in arithmetic) for a key not in the table
Order(table, k) == IF k \in DOMAIN table THEN Num(table[k]) ELSE NaN

(***************************************************************************)
(* Strings                                                                 *)
(***************************************************************************)
LowerChar(c) == IF c = "A" THEN "a" ELSE IF c = "B" THEN "b" ELSE c

RECURSIVE toLowerCase(_)
toLowerCase(s) ==
    IF Len(s) = 0 THEN ""
    ELSE LowerChar(SubSeq(s, 1, 1)) \o toLowerCase(SubSeq(s, 2, Len(s)))

RECURSIVE trim(_)
trim(s) ==
    IF Len(s) = 0 THEN ""
    ELSE IF SubSeq(s, 1, 1) = " " THEN trim(SubSeq(s, 2, Len(s)))
    ELSE IF SubSeq(s, Len(s), Len(s)) = " " THEN trim(SubSeq(s, 1, Len(s) - 1))
    ELSE s

includes(s, part) ==
    \E i \in 1 .. (Len(s) + 1) :
        i + Len(part) - 1 <= Len(s) /\ SubSeq(s, i, i + Len(part) - 1) = part

\* arr.filter(P) for a set of kept indices
RECURSIVE FilterSeq(_, _)
FilterSeq(arr, keep) ==
    IF arr = <<>> THEN <<>>
    ELSE LET rest == FilterSeq(Tail(arr), {i - 1 : i \in keep \ {1}})
         IN  IF 1 \in keep THEN <<Head(arr)>> \o rest ELSE rest

(***************************************************************************)
(* Query pipeline                                                          *)
(***************************************************************************)
\* a text filter that compares without lowering the case
matchesTextCaseSensitive(t) ==
    IF trim(q) # ""
    THEN includes(Get(t, "title") \o " " \o
                  (IF Truthy(Get(t, "notes")) THEN Get(t, "notes") ELSE ""), q)
    ELSE TRUE

\* q.trim() ? (t.title + " " + (t.notes || "")).toLowerCase().includes(q.toLowerCase()) : true
matchesText(t) ==
    IF trim(q) # ""
    THEN includes(toLowerCase(Get(t, "title") \o " " \o
                              (IF Truthy(Get(t, "notes")) THEN Get(t, "notes") ELSE "")),
                  toLowerCase(q))
    ELSE TRUE

matchesPriority(t) == priorityFilter = "All" \/ Get(t, "priority") = priorityFilter

matchesStatus(t) == statusFilter = "All" \/ Get(t, "status") = statusFilter

filtered ==
    LET f1 == FilterSeq(tasks, {i \in DOMAIN tasks : matchesText(tasks[i])})
        f2 == FilterSeq(f1, {i \in DOMAIN f1 : matchesPriority(f1[i])})
    IN  FilterSeq(f2, {i \in DOMAIN f2 : matchesStatus(f2[i])})

dueTime(t) == IF Truthy(Get(t, "due")) THEN getTime(Get(t, "due")) ELSE Infinity

compare(a, b) ==
    LET cmp == IF sortBy = "priority"
               THEN Minus(Order(PRIORITY_ORDER, Get(a, "priority")),
                          Order(PRIORITY_ORDER, Get(b, "priority")))
               ELSE IF sortBy = "due"
               THEN Minus(dueTime(a), dueTime(b))
               ELSE IF sortBy = "created"
               THEN Minus(getTime(Get(a, "createdAt")), getTime(Get(b, "createdAt")))
               ELSE IF sortBy = "status"
               THEN Minus(Order(STATUS_ORDER, Get(a, "status")),
                          Order(STATUS_ORDER, Get(b, "status")))
               ELSE Num(0)
    IN  Sign(IF sortDir = "asc" THEN cmp ELSE Negate(cmp))

\* a sort that is not stable: x goes before the elements it ties with
RECURSIVE insertSortedUnstable(_, _)
insertSortedUnstable(arr, x) ==
    IF arr = <<>> THEN <<x>>
    ELSE IF compare(Head(arr), x) >= 0 THEN <<x>> \o arr
    ELSE <<Head(arr)>> \o insertSortedUnstable(Tail(arr), x)

\* Array.prototype.sort is stable: x goes after every element that does not
\* compare greater than it
RECURSIVE insertSorted(_, _)
insertSorted(arr, x) ==
    IF arr = <<>> THEN <<x>>
    ELSE IF compare(Head(arr), x) > 0 THEN <<x>> \o arr
    ELSE <<Head(arr)>> \o insertSorted(Tail(arr), x)

RECURSIVE sortFrom(_, _)
sortFrom(done, rest) ==
    IF rest = <<>> THEN done ELSE sortFrom(insertSorted(done, Head(rest)), Tail(rest))

sorted == sortFrom(<<>>, filtered)

\* the statistics, over a collection
statsOf(arr) ==
    [total |-> Len(arr),
     done |-> Len(FilterSeq(arr, {i \in DOMAIN arr : Get(arr[i], "status") = "Done"})),
     high |-> Len(FilterSeq(arr, {i \in DOMAIN arr :
                  Get(arr[i], "priority") = "High" \/ Get(arr[i], "priority") = "Urgent"}))]

\* statistics computed over the filtered view instead
statsInputFiltered == filtered

\* the collection the statistics are computed over
statsInput == tasks

stats == statsOf(statsInput)

(***************************************************************************)
(* JSON text: localStorage items, export downloads, import files           *)
(*   shape "array"      a top-level sequence of objects (items)            *)
(*   shape "object"     well-formed JSON whose top-level value is no array *)
(*   shape "malformed"  text that JSON.parse rejects                       *)
(*   shape "absent"     no item / no file                                  *)
(***************************************************************************)
NoText == [shape |-> "absent", items |-> <<>>]
Malformed == [shape |-> "malformed", items |-> <<>>]
NotArray == [shape |-> "object", items |-> <<>>]

\* JSON.stringify omits the fields whose value is undefined
DropUndefined(o) == [k \in {f \in DOMAIN o : o[f] # Undefined} |-> o[k]]

JSONstringify(arr) == [shape |-> "array", items |-> [i \in DOMAIN arr |-> DropUndefined(arr[i])]]

\* JSON.parse returns (does not throw)
parses(text) == text.shape \in {"array", "object"}

\* a shape check that lets every well-formed JSON value through
isArrayAny(text) == text.shape # "malformed"

isArray(text) == text.shape = "array"

(***************************************************************************)
(* Inputs                                                                  *)
(***************************************************************************)
\* the fields of TaskForm when it is submitted (due "" when no date is picked)
FormInputs ==
    { [title |-> "Ab", notes |-> "", priority |-> "Normal", status |-> "Todo", due |-> ""],
      [title |-> "b", notes |-> "a", priority |-> "Urgent", status |-> "In Progress",
       due |-> "2024-05-02"],
      [title |-> " ", notes |-> "", priority |-> "Low", status |-> "Done", due |-> ""] }

\* collections a previous session of the local build left in localStorage
Persisted1 ==
    [id |-> "K1", title |-> "Ab", notes |-> "", priority |-> "Normal", status |-> "Todo",
     createdAt |-> toISOString(0), updatedAt |-> toISOString(0)]
Persisted2 ==
    [id |-> "K2", title |-> "b", notes |-> "a", priority |-> "Urgent",
     status |-> "In Progress", due |-> "2024-05-01",
     createdAt |-> toISOString(0), updatedAt |-> toISOString(0)]

InitStores ==
    { NoText, Malformed,
      [shape |-> "array", items |-> <<Persisted1>>],
      [shape |-> "array", items |-> <<Persisted2, Persisted1>>] }

\* files offered to the import control
ImportFiles ==
    { Malformed, NotArray,
      [shape |-> "array", items |-> << [id |-> "x", title |-> "A", priority |-> "Bogus"] >>],
      [shape |-> "array",
       items |-> << [id |-> "x", title |-> "A", status |-> "Done", due |-> "2024-05-01",
                     createdAt |-> toISOString(0)],
                    [id |-> "x", title |-> "B", notes |-> "n", priority |-> "High"] >>],
      [shape |-> "array",
       items |-> << [id |-> "#7", title |-> "A"], [id |-> "y", title |-> ""],
                    [title |-> "A"] >>],
      [shape |-> "array", items |-> << [id |-> EmptyArray, title |-> "A"] >>],
      [shape |-> "array",
       items |-> << [id |-> "z", title |-> "A", createdAt |-> toISOString(2)] >>] }

ids(arr) == {Get(arr[i], "id") : i \in DOMAIN arr}

\* uid(): an id no task of the collection has
uid(arr) ==
    LET n == CHOOSE m \in 1 .. (Len(arr) + 1) :
                 /\ "K" \o ToString(m) \notin ids(arr)
                 /\ \A l \in 1 .. (m - 1) : "K" \o ToString(l) \in ids(arr)
    IN  "K" \o ToString(n)

(***************************************************************************)
(* Local regime of App.jsx: the state updates of the handlers              *)
(***************************************************************************)
\* a ?? b
Nullish(a, b) == IF a = Undefined THEN b ELSE a
\* a || b
OrElse(a, b) == IF Truthy(a) THEN a ELSE b

\* the payload TaskForm.handleSubmit passes to onSubmit (App.jsx)
formPayload(f) ==
    [title |-> f.title, notes |-> f.notes, priority |-> f.priority, status |-> f.status,
     due |-> OrElse(f.due, Undefined)]

\* upsertTask, the editing branch: prev.map(...)
editTasks(prev, id, input, at) ==
    [i \in DOMAIN prev |->
        IF Get(prev[i], "id") = id
        THEN Spread(prev[i],
                    [title |-> Nullish(Get(input, "title"), Get(prev[i], "title")),
                     notes |-> Nullish(Get(input, "notes"), Get(prev[i], "notes")),
                     priority |-> Nullish(Get(input, "priority"), Get(prev[i], "priority")),
                     status |-> Nullish(Get(input, "status"), Get(prev[i], "status")),
                     due |-> IF Get(input, "due") = Undefined
                             THEN Get(prev[i], "due")
                             ELSE OrElse(Get(input, "due"), Undefined),
                     updatedAt |-> at])
        ELSE prev[i]]

\* upsertTask, the create branch: the new task
newTask(prev, input, at) ==
    [id |-> uid(prev),
     title |-> trim(OrElse(Get(input, "title"), "Untitled")),
     notes |-> OrElse(Get(input, "notes"), ""),
     priority |-> OrElse(Get(input, "priority"), "Normal"),
     status |-> OrElse(Get(input, "status"), "Todo"),
     due |-> OrElse(Get(input, "due"), Undefined),
     createdAt |-> at,
     updatedAt |-> at]

\* removeTask: prev.filter(t => t.id !== id)
removeFrom(prev, id) == FilterSeq(prev, {i \in DOMAIN prev : Get(prev[i], "id") # id})

\* a toggle that cycles through the three statuses
toggledStatusCycle(s) ==
    IF s = "Todo" THEN "In Progress" ELSE IF s = "In Progress" THEN "Done" ELSE "Todo"

\* the new status toggleDone computes
toggledStatus(s) == IF s = "Done" THEN "Todo" ELSE "Done"

\* toggleDone: prev.map(...)
toggleIn(prev, id, at) ==
    [i \in DOMAIN prev |->
        IF Get(prev[i], "id") = id
        THEN Spread(prev[i], [status |-> toggledStatus(Get(prev[i], "status")),
                              updatedAt |-> at])
        ELSE prev[i]]

\* importJSON: data.filter(...).map(...)
acceptsRecord(d) == Truthy(Get(d, "id")) /\ Truthy(Get(d, "title"))

\* an import that stamps createdAt anew
cleanRecordRestamped(d, at) ==
    [id |-> String(Get(d, "id")),
     title |-> String(Get(d, "title")),
     notes |-> IF Truthy(Get(d, "notes")) THEN String(Get(d, "notes")) ELSE "",
     priority |-> IF Get(d, "priority") \in Range(Priorities)
                  THEN Get(d, "priority") ELSE "Normal",
     status |-> IF Get(d, "status") \in Range(Statuses) THEN Get(d, "status") ELSE "Todo",
     due |-> IF Truthy(Get(d, "due")) THEN String(Get(d, "due")) ELSE Undefined,
     createdAt |-> at,
     updatedAt |-> at]

cleanRecord(d, at) ==
    [id |-> String(Get(d, "id")),
     title |-> String(Get(d, "title")),
     notes |-> IF Truthy(Get(d, "notes")) THEN String(Get(d, "notes")) ELSE "",
     priority |-> IF Get(d, "priority") \in Range(Priorities)
                  THEN Get(d, "priority") ELSE "Normal",
     status |-> IF Get(d, "status") \in Range(Statuses) THEN Get(d, "status") ELSE "Todo",
     due |-> IF Truthy(Get(d, "due")) THEN String(Get(d, "due")) ELSE Undefined,
     createdAt |-> IF Truthy(Get(d, "createdAt")) THEN String(Get(d, "createdAt")) ELSE at,
     updatedAt |-> at]

clean(data, at) ==
    LET kept == FilterSeq(data, {i \in DOMAIN data : acceptsRecord(data[i])})
    IN  [i \in DOMAIN kept |-> cleanRecord(kept[i], at)]

\* the status a task of the collection has (find)
statusOf(arr, id) ==
    IF id \in ids(arr)
    THEN Get(arr[CHOOSE i \in DOMAIN arr : Get(arr[i], "id") = id], "status")
    ELSE Undefined

\* hist: op the handler, id the task it was called for, n how many times in a row
\* it has now been called for that id, was the status the task had before the
\* first of these calls (for importJSON: "export" when the file is the one
\* exportJSON wrote), stored the status the user's remote task had before the
\* first of these calls of toggleDone
NoHist == [op |-> "", id |-> NoId, was |-> Undefined, n |-> 0, stored |-> Undefined]
Did(op, id, was) ==
    IF hist.op = op /\ hist.id = id /\ op = "toggleDone"
    THEN [hist EXCEPT !.n = @ + 1]
    ELSE [op |-> op, id |-> id, was |-> was, n |-> 1,
          stored |-> IF op = "toggleDone" /\ build = "cloud" /\ user # NoUser
                     THEN IF id \in DOMAIN remote[user]
                          THEN Get(remote[user][id], "status") ELSE Undefined
                     ELSE Undefined]

\* outcome: op the handler or channel function, write how its write ended
\* ("ok", "failed", "sent" while in flight, "none"), raised the error its caller
\* receives ("" when none), logged what console.error printed ("" when nothing)
NoOutcome == [op |-> "", write |-> "", raised |-> "", logged |-> ""]
Ended(op, write, raised, logged) ==
    [op |-> op, write |-> write, raised |-> raised, logged |-> logged]

\* the save effect: localStorage.setItem in a try / catch that logs
saveOutcome(op, saved) ==
    IF saved THEN Ended(op, "ok", "", "") ELSE Ended(op, "failed", "", "Failed to save tasks")


(***************************************************************************)
(* Remote Task Channel (hooks/useTasks over Firestore)                     *)
(***************************************************************************)
MaxPending == 1     \* writes in flight at a time

\* String(uid) of an object passed where the uid belongs
ObjectPath == "[object Object]"
\* the path segments String(uid) can give: a uid, an object, null, ""
Paths == Users \cup {ObjectPath, NoUser, ""}

NoDocs == [d \in {} |-> <<>>]

\* startup is not followed effect by effect
NoBoot == [strict |-> FALSE, pc |-> "done", queued |-> <<>>, was |-> NoText,
           failed |-> FALSE]

\* SyncStatus's listener has had no snapshot since it subscribed
NoSeen == [fresh |-> TRUE, docs |-> NoDocs]

\* no fallback fetch is in flight
NoFetch == [u \in Users |-> 0]

\* the fields of the cloud TaskForm when it is submitted
CloudFormInputs ==
    { [title |-> "Ab", notes |-> "", priority |-> "Normal", status |-> "Todo",
       due |-> "2024-05-01", time |-> "09:00", email |-> "a@b", location |-> "x"],
      [title |-> "b", notes |-> "a", priority |-> "Urgent", status |-> "Done",
       due |-> "", time |-> "", email |-> "", location |-> ""],
      [title |-> " ", notes |-> "", priority |-> "Low", status |-> "Todo",
       due |-> "", time |-> "", email |-> "", location |-> ""] }

\* the payload TaskForm.handleSubmit passes to onSubmit (part_000)
cloudFormPayload(initialId, f) ==
    Spread(IF Truthy(initialId) /\ initialId # NoId THEN [id |-> initialId] ELSE <<>>,
           [title |-> trim(f.title), notes |-> f.notes, priority |-> f.priority,
            status |-> f.status,
            due |-> OrElse(f.due, Undefined),
            time |-> OrElse(f.time, Undefined),
            email |-> OrElse(f.email, Undefined),
            location |-> OrElse(f.location, Undefined)])

\* the documents earlier sessions left in the remote store
InitRemote ==
    [p \in Paths |->
        IF p = "u1"
        THEN "D1" :> [title |-> "Ab", notes |-> "", priority |-> "Normal", status |-> "Todo",
                      due |-> "2024-05-01", time |-> "09:00", email |-> "a@b",
                      location |-> "x",
                      createdAt |-> toISOString(0), updatedAt |-> toISOString(0)]
        ELSE IF p = "u2"
        THEN "D1" :> [title |-> "b", notes |-> "a", priority |-> "High",
                      status |-> "In Progress", due |-> "2024-05-02", time |-> "10:00",
                      email |-> "b@b", location |-> "y",
                      createdAt |-> toISOString(0), updatedAt |-> toISOString(0)]
        ELSE NoDocs]

\* Firestore refuses data with a field whose value is undefined
\* (ignoreUndefinedProperties is not set in firebase.js)
validData(data) == \A k \in DOMAIN data : data[k] # Undefined

\* the auto-id of addDoc: an id no document or write of the path has
autoId(path, queue) ==
    LET used == DOMAIN remote[path] \cup
                {queue[i].id : i \in {j \in DOMAIN queue : queue[j].path = path}}
        n == CHOOSE m \in 1 .. (Cardinality(used) + 1) :
                 /\ "D" \o ToString(m) \notin used
                 /\ \A l \in 1 .. (m - 1) : "D" \o ToString(l) \in used
    IN  "D" \o ToString(n)

\* document data that lets the caller's timestamps win
createDataCallerWins(task, at) == Spread([createdAt |-> at, updatedAt |-> at], task)

\* the document written by createTask
createData(task, at) == Spread(task, [createdAt |-> at, updatedAt |-> at])

\* the fields written by updateTask (merged into the document)
updateData(updates, at) == Spread(updates, [updatedAt |-> at])

Write(path, op, id, data) == [path |-> path, op |-> op, id |-> id, data |-> data]

\* a write in flight, with the handler that awaits it ("" for a direct caller of
\* the channel, "importJSON" for a promise nobody awaits)
SentBy(w, by) == [path |-> w.path, op |-> w.op, id |-> w.id, data |-> w.data, by |-> by]

\* the effect of one write on a collection: addDoc, setDoc(merge), deleteDoc
applyWrite(docs, w) ==
    IF w.op = "delete"
    THEN [d \in DOMAIN docs \ {w.id} |-> docs[d]]
    ELSE IF w.op = "set" /\ w.id \in DOMAIN docs
    THEN [d \in DOMAIN docs |-> IF d = w.id THEN Spread(docs[d], w.data) ELSE docs[d]]
    ELSE [d \in DOMAIN docs \cup {w.id} |-> IF d = w.id THEN w.data ELSE docs[d]]

RECURSIVE applyAll(_, _, _)
applyAll(docs, ws, path) ==
    IF ws = <<>> THEN docs
    ELSE applyAll(IF Head(ws).path = path THEN applyWrite(docs, Head(ws)) ELSE docs,
                  Tail(ws), path)

\* what the client sees of a collection: the server's documents with the
\* client's own unacknowledged writes applied
localView(path) == applyAll(remote[path], pending, path)

\* query(col, orderBy("createdAt", "desc")): the documents that have the field,
\* latest first, ties by document id
docNumber(d) == CHOOSE i \in 1 .. (MaxOps + MaxPending + 2) : "D" \o ToString(i) = d

precedes(docs, d, e) ==
    LET c == Sign(Minus(getTime(docs[d].createdAt), getTime(docs[e].createdAt)))
    IN  c > 0 \/ (c = 0 /\ docNumber(d) > docNumber(e))

RECURSIVE orderDocs(_, _)
orderDocs(docs, left) ==
    IF left = {} THEN <<>>
    ELSE LET first == CHOOSE d \in left : \A e \in left \ {d} : precedes(docs, d, e)
         IN  <<first>> \o orderDocs(docs, left \ {first})

\* a delivery merged into the collection: the tasks already in memory that the
\* snapshot does not hold are kept
snapshotTasksMerged(docs) ==
    LET has == {d \in DOMAIN docs : "createdAt" \in DOMAIN docs[d]}
        ord == orderDocs(docs, has)
    IN  [i \in DOMAIN ord |-> Spread([id |-> ord[i]], docs[ord[i]])] \o
        FilterSeq(tasks, {i \in DOMAIN tasks : Get(tasks[i], "id") \notin has})

\* snap.docs.map(d => ({ id: d.id, ...d.data() }))
snapshotTasks(docs) ==
    LET has == {d \in DOMAIN docs : "createdAt" \in DOMAIN docs[d]}
        ord == orderDocs(docs, has)
    IN  [i \in DOMAIN ord |-> Spread([id |-> ord[i]], docs[ord[i]])]

\* an optimistic update: the write is applied to the in-memory collection at once
tasksAfterCloudWriteOptimistic(prev, w) ==
    IF w.op = "delete" THEN removeFrom(prev, w.id)
    ELSE IF w.op = "add" THEN <<Spread([id |-> w.id], w.data)>> \o prev
    ELSE [i \in DOMAIN prev |->
             IF Get(prev[i], "id") = w.id THEN Spread(prev[i], w.data) ELSE prev[i]]

\* what a cloud write does to the in-memory collection before any delivery
tasksAfterCloudWrite(prev, w) == prev


(***************************************************************************)
(* Initial state: the component is constructed, no effect has run          *)
(***************************************************************************)
Init ==
    /\ build \in {"local", "cloud"}
    /\ mounted = FALSE
    /\ user = NoUser
    /\ tasks = <<>>
    /\ editing = NoId
    /\ showForm = FALSE
    /\ store \in (IF build = "local" THEN InitStores ELSE {NoText})
    /\ download = NoText
    /\ remote = InitRemote
    /\ pending = <<>>
    /\ sub = NoUser
    /\ fetching = NoFetch
    /\ taskSource = "local"
    /\ alertMsg = ""
    /\ now = 0
    /\ q = ""
    /\ priorityFilter = "All"
    /\ statusFilter = "All"
    /\ sortBy = "priority"
    /\ sortDir = "desc"
    /\ hist = NoHist
    /\ outcome = NoOutcome
    /\ online = TRUE
    /\ syncing = FALSE
    /\ syncSeen = NoSeen
    /\ boot = NoBoot
    /\ ops = 0

(***************************************************************************)
(* Mount: the effects of the first render, each run once (a production     *)
(* build), taken as one step; the effect-by-effect startup is further down.*)
(* App.jsx: the load effect reads localStorage, the save effect writes the *)
(* collection back.  part_000: useTasks runs with no uid.                  *)
(***************************************************************************)
\* a load that gives up on every stored content
loadTasksNothing(raw) == <<>>

\* the load effect: if (raw) setTasks(JSON.parse(raw)), in a try / catch that logs
loadTasks(raw) == IF raw.shape = "array" THEN raw.items ELSE <<>>

Mount ==
    /\ ~mounted
    /\ mounted' = TRUE
    /\ IF build = "local"
       THEN /\ tasks' = loadTasks(store)
            /\ \E saved \in BOOLEAN :
                   /\ store' = IF saved THEN JSONstringify(tasks') ELSE store
                   /\ outcome' = saveOutcome("mount", saved)
       ELSE /\ tasks' = <<>>
            /\ store' = store
            /\ outcome' = outcome
    /\ UNCHANGED <<build, editing, showForm, download, taskSource, alertMsg, now, hist>>
    /\ UNCHANGED cloudVars
    /\ UNCHANGED viewVars
    /\ UNCHANGED syncVars
    /\ UNCHANGED boot
    /\ UNCHANGED ops

\* the "New Task" button
OpenForm ==
    /\ mounted /\ ~showForm
    /\ showForm' = TRUE
    /\ alertMsg' = ""
    /\ UNCHANGED <<build, mounted, tasks, editing, store, download, taskSource, now, hist, outcome>>
    /\ UNCHANGED cloudVars
    /\ UNCHANGED viewVars
    /\ UNCHANGED syncVars
    /\ UNCHANGED boot
    /\ ops < MaxOps /\ ops' = ops + 1

\* the "Edit" button of a listed task
StartEdit(id) ==
    /\ mounted /\ ~showForm /\ id \in ids(sorted)
    /\ editing' = id
    /\ showForm' = TRUE
    /\ alertMsg' = ""
    /\ UNCHANGED <<build, mounted, tasks, store, download, taskSource, now, hist, outcome>>
    /\ UNCHANGED cloudVars
    /\ UNCHANGED viewVars
    /\ UNCHANGED syncVars
    /\ UNCHANGED boot
    /\ ops < MaxOps /\ ops' = ops + 1

\* TaskForm onClose
CloseForm ==
    /\ mounted /\ showForm
    /\ showForm' = FALSE
    /\ editing' = NoId
    /\ alertMsg' = ""
    /\ UNCHANGED <<build, mounted, tasks, store, download, taskSource, now, hist, outcome>>
    /\ UNCHANGED cloudVars
    /\ UNCHANGED viewVars
    /\ UNCHANGED syncVars
    /\ UNCHANGED boot
    /\ ops < MaxOps /\ ops' = ops + 1

\* the write upsertTask sends in the cloud regime, <<>> when Firestore refuses the data
upsertWrites(task, at) ==
    IF Truthy(Get(task, "id"))
    THEN IF validData(updateData(task, at))
         THEN <<SentBy(Write(user, "set", Get(task, "id"), updateData(task, at)),
                       "upsertTask")>>
         ELSE <<>>
    ELSE IF validData(createData(task, at))
         THEN <<SentBy(Write(user, "add", autoId(user, pending), createData(task, at)),
                       "upsertTask")>>
         ELSE <<>>

\* how a handler of part_000 stands right after its call: the write is in flight,
\* or the call threw (Firestore refused the data, or with no user the local
\* helper is not defined) and the handler's catch logged it
cloudOutcome(op, ws) ==
    IF ws # <<>> THEN Ended(op, "sent", "", "")
    ELSE IF user = NoUser THEN Ended(op, "none", "", op \o " error")
    ELSE Ended(op, "failed", "", op \o " error")

\* TaskForm.handleSubmit and upsertTask
SubmitForm(f) ==
    /\ mounted /\ showForm
    /\ IF trim(f.title) = ""
       THEN /\ alertMsg' = "Title is required"
            /\ UNCHANGED <<tasks, editing, showForm, store, pending, taskSource, hist, outcome>>
       ELSE IF build = "local"
       THEN /\ f \in FormInputs
            /\ tasks' = IF editing # NoId
                        THEN editTasks(tasks, editing, formPayload(f), toISOString(now))
                        ELSE <<newTask(tasks, formPayload(f), toISOString(now))>> \o tasks
            /\ editing' = NoId
            /\ showForm' = FALSE
            /\ \E saved \in BOOLEAN :
                   /\ store' = IF saved THEN JSONstringify(tasks') ELSE store
                   /\ outcome' = saveOutcome("upsertTask", saved)
            /\ hist' = Did("upsertTask", editing, Undefined)
            /\ alertMsg' = ""
            /\ UNCHANGED <<pending, taskSource>>
       ELSE /\ f \in CloudFormInputs
            /\ Len(pending) < MaxPending
            /\ LET ws == IF user # NoUser
                         THEN upsertWrites(cloudFormPayload(editing, f), toISOString(now))
                         ELSE <<>>
               IN  /\ pending' = pending \o ws
                   /\ tasks' = IF ws # <<>> THEN tasksAfterCloudWrite(tasks, ws[1]) ELSE tasks
                   /\ outcome' = cloudOutcome("upsertTask", ws)
            /\ hist' = Did("upsertTask", editing, Undefined)
            /\ alertMsg' = ""
            /\ UNCHANGED <<editing, showForm, store, taskSource>>
    /\ UNCHANGED <<build, mounted, download, now, user, remote, sub, fetching>>
    /\ UNCHANGED viewVars
    /\ UNCHANGED syncVars
    /\ UNCHANGED boot
    /\ ops < MaxOps /\ ops' = ops + 1

removeTask(id) ==
    /\ mounted /\ ~showForm /\ id \in ids(sorted)
    /\ IF build = "local"
       THEN /\ tasks' = removeFrom(tasks, id)
            /\ \E saved \in BOOLEAN :
                   /\ store' = IF saved THEN JSONstringify(tasks') ELSE store
                   /\ outcome' = saveOutcome("removeTask", saved)
            /\ UNCHANGED pending
       ELSE /\ Len(pending) < MaxPending
            /\ LET ws == IF user # NoUser
                         THEN <<SentBy(Write(user, "delete", id, <<>>), "removeTask")>>
                         ELSE <<>>
               IN  /\ pending' = pending \o ws
                   /\ tasks' = IF ws # <<>> THEN tasksAfterCloudWrite(tasks, ws[1]) ELSE tasks
                   /\ outcome' = cloudOutcome("removeTask", ws)
            /\ UNCHANGED store
    /\ hist' = Did("removeTask", id, Undefined)
    /\ alertMsg' = ""
    /\ UNCHANGED <<build, mounted, editing, showForm, download, taskSource, now,
                   user, remote, sub, fetching>>
    /\ UNCHANGED viewVars
    /\ UNCHANGED syncVars
    /\ UNCHANGED boot
    /\ ops < MaxOps /\ ops' = ops + 1

\* an id no task of the collection has (the task was removed meanwhile)
GoneId == "gone"

\* part_000 returns when tasks.find does not find the id; App.jsx maps the
\* collection, which leaves every task as it is
toggleDone(id) ==
    /\ mounted /\ ~showForm /\ id \in ids(sorted) \cup {GoneId}
    /\ IF build = "local"
       THEN /\ tasks' = toggleIn(tasks, id, toISOString(now))
            /\ \E saved \in BOOLEAN :
                   /\ store' = IF saved THEN JSONstringify(tasks') ELSE store
                   /\ outcome' = saveOutcome("toggleDone", saved)
            /\ UNCHANGED pending
       ELSE /\ Len(pending) < MaxPending
            /\ LET ws == IF user # NoUser /\ id \in ids(tasks)
                         THEN <<SentBy(Write(user, "set", id,
                                  updateData([status |-> toggledStatus(statusOf(tasks, id))],
                                             toISOString(now))), "toggleDone")>>
                         ELSE <<>>
               IN  /\ pending' = pending \o ws
                   /\ tasks' = IF ws # <<>> THEN tasksAfterCloudWrite(tasks, ws[1]) ELSE tasks
                   /\ outcome' = IF id \in ids(tasks)
                                 THEN cloudOutcome("toggleDone", ws)
                                 ELSE Ended("toggleDone", "none", "", "")
            /\ UNCHANGED store
    /\ hist' = Did("toggleDone", id, statusOf(tasks, id))
    /\ alertMsg' = ""
    /\ UNCHANGED <<build, mounted, editing, showForm, download, taskSource, now,
                   user, remote, sub, fetching>>
    /\ UNCHANGED viewVars
    /\ UNCHANGED syncVars
    /\ UNCHANGED boot
    /\ ops < MaxOps /\ ops' = ops + 1

exportJSON ==
    /\ mounted /\ ~showForm
    /\ download' = JSONstringify(tasks)
    /\ alertMsg' = ""
    /\ UNCHANGED <<build, mounted, tasks, editing, showForm, store, taskSource, now, hist, outcome>>
    /\ UNCHANGED cloudVars
    /\ UNCHANGED viewVars
    /\ UNCHANGED syncVars
    /\ UNCHANGED boot
    /\ ops < MaxOps /\ ops' = ops + 1

\* part_000: clean.forEach((task) => createTask(task)) -- the task is passed where
\* the uid belongs, so each call adds a document holding only the two timestamps
\* under users/[object Object]/tasks
RECURSIVE importWrites(_, _, _)
importWrites(n, queue, at) ==
    IF n = 0 THEN queue
    ELSE importWrites(n - 1,
                      Append(queue, SentBy(Write(ObjectPath, "add",
                                                 autoId(ObjectPath, queue),
                                                 createData(<<>>, at)), "importJSON")),
                      at)

importJSON(file) ==
    /\ mounted /\ ~showForm
    /\ file.shape # "absent"
    /\ ops < MaxOps /\ ops' = ops + 1
    /\ hist' = Did("importJSON", NoId, IF file = download THEN "export" ELSE "file")
    /\ IF ~parses(file) \/ ~isArray(file)
       THEN /\ alertMsg' = "Could not import"
            /\ outcome' = Ended("importJSON", "none", "", "")
            /\ UNCHANGED <<tasks, store, pending>>
       ELSE IF build = "local"
       THEN /\ tasks' = clean(file.items, toISOString(now))
            /\ \E saved \in BOOLEAN :
                   /\ store' = IF saved THEN JSONstringify(tasks') ELSE store
                   /\ outcome' = saveOutcome("importJSON", saved)
            /\ alertMsg' = ""
            /\ UNCHANGED pending
       ELSE /\ Len(pending) + Len(clean(file.items, toISOString(now))) <= MaxPending
            /\ pending' = importWrites(Len(clean(file.items, toISOString(now))), pending,
                                       toISOString(now))
            /\ outcome' = Ended("importJSON",
                                IF pending' # pending THEN "sent" ELSE "none", "", "")
            /\ alertMsg' = ""
            /\ UNCHANGED <<tasks, store>>
    /\ UNCHANGED <<build, mounted, editing, showForm, download, taskSource, now,
                   user, remote, sub, fetching>>
    /\ UNCHANGED viewVars
    /\ UNCHANGED syncVars
    /\ UNCHANGED boot


(***************************************************************************)
(* Identity and subscription (useAuth, useTasks)                           *)
(***************************************************************************)
\* onAuthStateChanged delivers a new identity; the useTasks effect is cleaned up
\* (unsub) and runs again for the new uid.  SyncStatus is rendered only while a
\* user is signed in: it is mounted afresh on sign-in, unmounted on sign-out,
\* and re-subscribes when the uid changes
AuthChange(u) ==
    /\ mounted /\ build = "cloud" /\ u # user
    /\ user' = u
    /\ sub' = u
    /\ IF u = NoUser
       THEN tasks' = <<>> /\ taskSource' = "local"
       ELSE UNCHANGED <<tasks, taskSource>>
    /\ syncing' = IF user = NoUser \/ u = NoUser THEN FALSE ELSE syncing
    /\ syncSeen' = NoSeen
    /\ UNCHANGED <<build, mounted, editing, showForm, store, download, remote, pending,
                   fetching, alertMsg, now, hist, outcome, online, boot>>
    /\ UNCHANGED viewVars
    /\ ops < MaxOps /\ ops' = ops + 1

\* the snapshot listener's onNext
OnNext ==
    /\ mounted /\ sub # NoUser
    /\ tasks' = snapshotTasks(localView(sub))
    /\ taskSource' = sub
    /\ UNCHANGED <<build, mounted, editing, showForm, store, download, alertMsg, now, hist,
                   outcome>>
    /\ UNCHANGED cloudVars
    /\ UNCHANGED viewVars
    /\ UNCHANGED syncVars
    /\ UNCHANGED boot
    /\ UNCHANGED ops

\* the snapshot listener's onError: the listener is over, a one-time getDocs starts
ListenError ==
    /\ mounted /\ sub # NoUser
    /\ sub' = NoUser
    /\ fetching' = [fetching EXCEPT ![sub] = @ + 1]
    /\ UNCHANGED <<build, mounted, user, tasks, editing, showForm, store, download, remote,
                   pending, taskSource, alertMsg, now, hist, outcome>>
    /\ UNCHANGED viewVars
    /\ UNCHANGED syncVars
    /\ UNCHANGED boot
    /\ ops < MaxOps /\ ops' = ops + 1

\* the fallback getDocs resolves
FetchDone(u) ==
    /\ fetching[u] > 0
    /\ fetching' = [fetching EXCEPT ![u] = @ - 1]
    /\ tasks' = snapshotTasks(localView(u))
    /\ taskSource' = u
    /\ UNCHANGED <<build, mounted, user, editing, showForm, store, download, remote,
                   pending, sub, alertMsg, now, hist, outcome>>
    /\ UNCHANGED viewVars
    /\ UNCHANGED syncVars
    /\ UNCHANGED boot
    /\ UNCHANGED ops

\* the fallback getDocs rejects
FetchFail(u) ==
    /\ fetching[u] > 0
    /\ fetching' = [fetching EXCEPT ![u] = @ - 1]
    /\ UNCHANGED <<build, mounted, user, tasks, editing, showForm, store, download, remote,
                   pending, sub, taskSource, alertMsg, now, hist, outcome>>
    /\ UNCHANGED viewVars
    /\ UNCHANGED syncVars
    /\ UNCHANGED boot
    /\ UNCHANGED ops

\* the remote store applies the oldest write in flight
Commit ==
    /\ pending # <<>> /\ online
    /\ remote' = [remote EXCEPT ![Head(pending).path] = applyWrite(@, Head(pending))]
    /\ pending' = Tail(pending)
    /\ outcome' = Ended(Head(pending).by, "ok", "", "")
    /\ UNCHANGED <<build, mounted, user, tasks, editing, showForm, store, download, sub,
                   fetching, taskSource, alertMsg, now, hist>>
    /\ UNCHANGED viewVars
    /\ UNCHANGED syncVars
    /\ UNCHANGED boot
    /\ UNCHANGED ops

\* the error a rejected write raises at the caller of the one that sent it: the
\* channel function logs and rethrows; upsertTask, removeTask and toggleDone
\* catch it and log; importJSON does not await the promise
raisedBy(by) == IF by = "" THEN "rejected" ELSE ""

\* the remote store rejects the oldest write in flight
Reject ==
    /\ pending # <<>> /\ online
    /\ pending' = Tail(pending)
    /\ outcome' = Ended(Head(pending).by, "failed", raisedBy(Head(pending).by),
                        IF Head(pending).by \in {"", "importJSON"}
                        THEN "write failed"
                        ELSE Head(pending).by \o " error")
    /\ UNCHANGED <<build, mounted, user, tasks, editing, showForm, store, download, remote,
                   sub, fetching, taskSource, alertMsg, now, hist>>
    /\ UNCHANGED viewVars
    /\ UNCHANGED syncVars
    /\ UNCHANGED boot
    /\ UNCHANGED ops

\* time passes
Tick ==
    /\ now' = now + 1
    /\ UNCHANGED <<build, mounted, tasks, editing, showForm, store, download, taskSource,
                   alertMsg, hist, outcome>>
    /\ UNCHANGED cloudVars
    /\ UNCHANGED viewVars
    /\ UNCHANGED syncVars
    /\ UNCHANGED boot
    /\ ops < MaxOps /\ ops' = ops + 1

formInputs == IF build = "local" THEN FormInputs ELSE CloudFormInputs

importable == ImportFiles \cup {download}

Next ==
    \/ Mount
    \/ OpenForm
    \/ \E id \in ids(tasks) : StartEdit(id)
    \/ CloseForm
    \/ \E f \in formInputs : SubmitForm(f)
    \/ \E id \in ids(tasks) : removeTask(id)
    \/ \E id \in ids(tasks) \cup {GoneId} : toggleDone(id)
    \/ exportJSON
    \/ \E file \in importable : importJSON(file)
    \/ \E u \in Users \cup {NoUser} : AuthChange(u)
    \/ OnNext
    \/ ListenError
    \/ \E u \in Users : FetchDone(u)
    \/ \E u \in Users : FetchFail(u)
    \/ Commit
    \/ Reject
    \/ Tick

Spec == Init /\ [][Next]_vars


(***************************************************************************)
(* Startup of App.jsx effect by effect.  The entry point renders the        *)
(* component inside React.StrictMode: a development build runs the mount    *)
(* effects, then runs them once more, before the state updates they queued  *)
(* are rendered; a production build runs them once.                         *)
(*   boot.pc      load, save, load2, save2, render, save3, done             *)
(*   boot.queued  the setTasks calls not yet rendered                       *)
(*   boot.was     localStorage before startup                               *)
(*   boot.failed  a save of the startup failed                              *)
(***************************************************************************)
\* the load effect: raw = localStorage.getItem(KEY); if (raw) setTasks(JSON.parse(raw))
LoadEffect ==
    /\ build = "local" /\ ~mounted /\ boot.pc \in {"load", "load2"}
    /\ boot' = [boot EXCEPT !.pc = IF @ = "load" THEN "save" ELSE "save2",
                            !.queued = IF parses(store) /\ isArray(store)
                                       THEN Append(@, loadTasks(store)) ELSE @]
    /\ UNCHANGED <<build, mounted, tasks, editing, showForm, store, download, taskSource,
                   alertMsg, now, hist, outcome, ops>>
    /\ UNCHANGED cloudVars
    /\ UNCHANGED viewVars
    /\ UNCHANGED syncVars

\* the save effect: localStorage.setItem(KEY, JSON.stringify(tasks)) with the
\* tasks of the render the effect belongs to
SaveEffect ==
    /\ build = "local" /\ ~mounted /\ boot.pc \in {"save", "save2", "save3"}
    /\ \E saved \in BOOLEAN :
           /\ store' = IF saved THEN JSONstringify(tasks) ELSE store
           /\ outcome' = saveOutcome("mount", saved)
           /\ boot' = [boot EXCEPT !.pc = IF @ = "save" /\ boot.strict THEN "load2"
                                          ELSE IF @ = "save3" THEN "done" ELSE "render",
                                   !.failed = @ \/ ~saved]
    /\ mounted' = (boot.pc = "save3")
    /\ UNCHANGED <<build, tasks, editing, showForm, download, taskSource, alertMsg, now,
                   hist, ops>>
    /\ UNCHANGED cloudVars
    /\ UNCHANGED viewVars
    /\ UNCHANGED syncVars

\* the queued setTasks calls are applied in order and the component renders
\* again; the save effect follows because tasks is a new array
Render ==
    /\ build = "local" /\ ~mounted /\ boot.pc = "render"
    /\ IF boot.queued = <<>>
       THEN /\ tasks' = tasks
            /\ mounted' = TRUE
            /\ boot' = [boot EXCEPT !.pc = "done"]
       ELSE /\ tasks' = boot.queued[Len(boot.queued)]
            /\ mounted' = FALSE
            /\ boot' = [boot EXCEPT !.pc = "save3", !.queued = <<>>]
    /\ UNCHANGED <<build, editing, showForm, store, download, taskSource, alertMsg, now,
                   hist, outcome, ops>>
    /\ UNCHANGED cloudVars
    /\ UNCHANGED viewVars
    /\ UNCHANGED syncVars

InitStart ==
    /\ build = "local"
    /\ mounted = FALSE
    /\ user = NoUser
    /\ tasks = <<>>
    /\ editing = NoId
    /\ showForm = FALSE
    /\ store \in InitStores
    /\ download = NoText
    /\ remote = InitRemote
    /\ pending = <<>>
    /\ sub = NoUser
    /\ fetching = NoFetch
    /\ taskSource = "local"
    /\ alertMsg = ""
    /\ now = 0
    /\ q = ""
    /\ priorityFilter = "All"
    /\ statusFilter = "All"
    /\ sortBy = "priority"
    /\ sortDir = "desc"
    /\ hist = NoHist
    /\ outcome = NoOutcome
    /\ online = TRUE
    /\ syncing = FALSE
    /\ syncSeen = NoSeen
    /\ boot \in {[strict |-> st, pc |-> "load", queued |-> <<>>, was |-> store,
                  failed |-> FALSE] : st \in BOOLEAN}
    /\ ops = 0

NextStart ==
    \/ LoadEffect
    \/ SaveEffect
    \/ Render
    \/ OpenForm
    \/ \E f \in FormInputs : SubmitForm(f)
    \/ \E id \in ids(tasks) : toggleDone(id)

SpecStart == InitStart /\ [][NextStart]_vars


(***************************************************************************)
(* Connectivity status (components/SyncStatus), shown while a user is      *)
(* signed in                                                               *)
(***************************************************************************)
\* snap.metadata.hasPendingWrites: the client has writes to the collection that
\* the server has not acknowledged
hasPendingWrites(path) == \E i \in DOMAIN pending : pending[i].path = path

\* onSnapshot(q, ...) without includeMetadataChanges: the listener is called with
\* the first snapshot and then whenever the documents of the query change; a
\* change of metadata alone (a write acknowledged, data as before) is not
\* delivered
snapshotDue ==
    user # NoUser /\ (syncSeen.fresh \/ syncSeen.docs # localView(user))

\* the listener of SyncStatus
SyncSnapshot ==
    /\ mounted /\ build = "cloud" /\ snapshotDue
    /\ syncing' = hasPendingWrites(user)
    /\ syncSeen' = [fresh |-> FALSE, docs |-> localView(user)]
    /\ UNCHANGED <<build, mounted, tasks, editing, showForm, store, download, taskSource,
                   alertMsg, now, hist, outcome, online, boot, ops>>
    /\ UNCHANGED cloudVars
    /\ UNCHANGED viewVars

\* window "offline" event
GoOffline ==
    /\ mounted /\ build = "cloud" /\ online
    /\ online' = FALSE
    /\ UNCHANGED <<build, mounted, tasks, editing, showForm, store, download, taskSource,
                   alertMsg, now, hist, outcome, syncing, syncSeen, boot>>
    /\ UNCHANGED cloudVars
    /\ UNCHANGED viewVars
    /\ ops < MaxOps /\ ops' = ops + 1

\* window "online" event
GoOnline ==
    /\ mounted /\ build = "cloud" /\ ~online
    /\ online' = TRUE
    /\ UNCHANGED <<build, mounted, tasks, editing, showForm, store, download, taskSource,
                   alertMsg, now, hist, outcome, syncing, syncSeen, boot>>
    /\ UNCHANGED cloudVars
    /\ UNCHANGED viewVars
    /\ ops < MaxOps /\ ops' = ops + 1

\* const status = !online ? "Offline" : syncing ? "Syncing" : "Online"
status == IF ~online THEN "Offline" ELSE IF syncing THEN "Syncing" ELSE "Online"

InitSync ==
    /\ build = "cloud"
    /\ mounted = TRUE
    /\ user = "u1"
    /\ tasks = <<>>
    /\ editing = NoId
    /\ showForm = FALSE
    /\ store = NoText
    /\ download = NoText
    /\ remote = InitRemote
    /\ pending = <<>>
    /\ sub = "u1"
    /\ fetching = NoFetch
    /\ taskSource = "local"
    /\ alertMsg = ""
    /\ now = 0
    /\ q = ""
    /\ priorityFilter = "All"
    /\ statusFilter = "All"
    /\ sortBy = "priority"
    /\ sortDir = "desc"
    /\ hist = NoHist
    /\ outcome = NoOutcome
    /\ online = TRUE
    /\ syncing = FALSE
    /\ syncSeen = NoSeen
    /\ boot = NoBoot
    /\ ops = 0

NextSync ==
    \/ OpenForm
    \/ \E f \in CloudFormInputs : SubmitForm(f)
    \/ \E id \in ids(tasks) : toggleDone(id)
    \/ \E u \in Users \cup {NoUser} : AuthChange(u)
    \/ OnNext
    \/ SyncSnapshot
    \/ GoOffline
    \/ GoOnline
    \/ Commit
    \/ Reject

SpecSync == InitSync /\ [][NextSync]_vars


(***************************************************************************)
(* The Remote Task Channel called directly: createTask, updateTask and     *)
(* deleteTaskCloud are exported by hooks/useTasks and take whatever uid,   *)
(* task and partial fields the caller passes                               *)
(***************************************************************************)
\* a timestamp a caller puts into a task or into partial fields
CallerTime == toISOString(3)

ChannelUids == {"u1", Undefined, NoUser, ""}

ChannelTasks ==
    { [title |-> "A", status |-> "Todo"],
      [title |-> "ts", createdAt |-> CallerTime, updatedAt |-> CallerTime],
      [title |-> "A", due |-> Undefined],
      [id |-> "K1", title |-> "A"] }

ChannelUpdates ==
    { [status |-> "Done"],
      [title |-> "ts", createdAt |-> CallerTime, updatedAt |-> CallerTime],
      [due |-> Undefined] }

ChannelIds == {"D1"}

\* a guard that rejects a uid only when it is undefined
uidMissingUndefinedOnly(uidArg) == uidArg = Undefined

\* if (!uid) throw new Error("...: uid required")
uidMissing(uidArg) == ~Truthy(uidArg)

\* the outcome and the queue after a channel function ran: the guard throws
\* before anything is sent; Firestore refusing the data is caught and rethrown
channelCall(name, uidArg, w) ==
    IF uidMissing(uidArg)
    THEN /\ pending' = pending
         /\ outcome' = Ended(name, "none", name \o ": uid required", "")
    ELSE IF ~validData(w.data)
    THEN /\ pending' = pending
         /\ outcome' = Ended(name, "failed", "rejected", name \o " failed")
    ELSE /\ pending' = Append(pending, SentBy(w, ""))
         /\ outcome' = Ended(name, "sent", "", "")

channelFrame ==
    /\ ops < MaxOps /\ ops' = ops + 1
    /\ UNCHANGED <<build, mounted, user, tasks, editing, showForm, store, download, remote,
                   sub, fetching, taskSource, alertMsg, now, hist>>
    /\ UNCHANGED viewVars
    /\ UNCHANGED syncVars
    /\ UNCHANGED boot

createTask(uidArg, task) ==
    /\ mounted /\ Len(pending) < MaxPending
    /\ channelFrame
    /\ channelCall("createTask", uidArg,
                   Write(String(uidArg), "add", autoId(String(uidArg), pending),
                         createData(task, toISOString(now))))

updateTask(uidArg, id, updates) ==
    /\ mounted /\ Len(pending) < MaxPending
    /\ channelFrame
    /\ channelCall("updateTask", uidArg,
                   Write(String(uidArg), "set", id, updateData(updates, toISOString(now))))

deleteTaskCloud(uidArg, id) ==
    /\ mounted /\ Len(pending) < MaxPending
    /\ channelFrame
    /\ channelCall("deleteTaskCloud", uidArg, Write(String(uidArg), "delete", id, <<>>))

InitChannel ==
    /\ build = "cloud"
    /\ mounted = TRUE
    /\ user = "u1"
    /\ tasks = <<>>
    /\ editing = NoId
    /\ showForm = FALSE
    /\ store = NoText
    /\ download = NoText
    /\ remote = InitRemote
    /\ pending = <<>>
    /\ sub = "u1"
    /\ fetching = NoFetch
    /\ taskSource = "local"
    /\ alertMsg = ""
    /\ now = 0
    /\ q = ""
    /\ priorityFilter = "All"
    /\ statusFilter = "All"
    /\ sortBy = "priority"
    /\ sortDir = "desc"
    /\ hist = NoHist
    /\ outcome = NoOutcome
    /\ online = TRUE
    /\ syncing = FALSE
    /\ syncSeen = NoSeen
    /\ boot = NoBoot
    /\ ops = 0

NextChannel ==
    \/ \E uidArg \in ChannelUids, task \in ChannelTasks : createTask(uidArg, task)
    \/ \E uidArg \in ChannelUids, id \in ChannelIds, updates \in ChannelUpdates :
           updateTask(uidArg, id, updates)
    \/ \E uidArg \in ChannelUids, id \in ChannelIds : deleteTaskCloud(uidArg, id)
    \/ Commit
    \/ Reject
    \/ Tick

SpecChannel == InitChannel /\ [][NextChannel]_vars

\* tasks stored through createTask, delivered to the app and then removed or
\* toggled there
NextIds ==
    \/ \E task \in ChannelTasks : createTask("u1", task)
    \/ OnNext
    \/ Commit
    \/ Reject
    \/ \E id \in ids(tasks) : removeTask(id)
    \/ \E id \in ids(tasks) : toggleDone(id)

SpecIds == InitChannel /\ [][NextIds]_vars


(***************************************************************************)
(* The query pipeline over persisted collections: the local build loads a  *)
(* collection, then the view parameters change                             *)
(***************************************************************************)
QueryTasks ==
    { [id |-> "K1", title |-> "Ab", notes |-> "", priority |-> "Normal", status |-> "Todo",
       createdAt |-> toISOString(0), updatedAt |-> toISOString(0)],
      [id |-> "K2", title |-> "b", notes |-> "a", priority |-> "Low", status |-> "Done",
       due |-> "2024-05-02", createdAt |-> toISOString(1), updatedAt |-> toISOString(1)],
      [id |-> "K3", title |-> "A", notes |-> "B", priority |-> "Urgent",
       status |-> "In Progress", due |-> "2024-05-01",
       createdAt |-> toISOString(0), updatedAt |-> toISOString(1)],
      [id |-> "K4", title |-> "B", notes |-> "", priority |-> "Urgent", status |-> "Todo",
       createdAt |-> toISOString(1), updatedAt |-> toISOString(1)],
      [id |-> "K5", title |-> "a b", notes |-> "", priority |-> "High", status |-> "Done",
       due |-> "2024-05-01", createdAt |-> toISOString(1), updatedAt |-> toISOString(1)] }

QueryStores ==
    { [shape |-> "array", items |-> c] :
        c \in { x \in UNION {[1 .. n -> QueryTasks] : n \in 0 .. MaxLen} :
                  \A i, j \in DOMAIN x : i # j => x[i] # x[j] } }

InitQuery ==
    /\ build = "local"
    /\ mounted = FALSE
    /\ user = NoUser
    /\ tasks = <<>>
    /\ editing = NoId
    /\ showForm = FALSE
    /\ store \in QueryStores
    /\ download = NoText
    /\ remote = InitRemote
    /\ pending = <<>>
    /\ sub = NoUser
    /\ fetching = NoFetch
    /\ taskSource = "local"
    /\ alertMsg = ""
    /\ now = 0
    /\ q = ""
    /\ priorityFilter = "All"
    /\ statusFilter = "All"
    /\ sortBy = "priority"
    /\ sortDir = "desc"
    /\ hist = NoHist
    /\ outcome = NoOutcome
    /\ online = TRUE
    /\ syncing = FALSE
    /\ syncSeen = NoSeen
    /\ boot = NoBoot
    /\ ops = 0

dataVars == <<build, mounted, tasks, editing, showForm, store, download, taskSource,
              alertMsg, now, hist, outcome, online, syncing, syncSeen, boot, ops>>

SetQ(v) ==
    /\ mounted /\ q' = v
    /\ UNCHANGED <<priorityFilter, statusFilter, sortBy, sortDir>>
    /\ UNCHANGED dataVars /\ UNCHANGED cloudVars

SetPriorityFilter(v) ==
    /\ mounted /\ priorityFilter' = v
    /\ UNCHANGED <<q, statusFilter, sortBy, sortDir>>
    /\ UNCHANGED dataVars /\ UNCHANGED cloudVars

SetStatusFilter(v) ==
    /\ mounted /\ statusFilter' = v
    /\ UNCHANGED <<q, priorityFilter, sortBy, sortDir>>
    /\ UNCHANGED dataVars /\ UNCHANGED cloudVars

SetSortBy(v) ==
    /\ mounted /\ sortBy' = v
    /\ UNCHANGED <<q, priorityFilter, statusFilter, sortDir>>
    /\ UNCHANGED dataVars /\ UNCHANGED cloudVars

SetSortDir(v) ==
    /\ mounted /\ sortDir' = v
    /\ UNCHANGED <<q, priorityFilter, statusFilter, sortBy>>
    /\ UNCHANGED dataVars /\ UNCHANGED cloudVars

Queries == {"", " ", "B a"}

NextQuery ==
    \/ Mount
    \/ \E v \in Queries : SetQ(v)
    \/ \E v \in {"All"} \cup Range(Priorities) : SetPriorityFilter(v)
    \/ \E v \in {"All"} \cup Range(Statuses) : SetStatusFilter(v)
    \/ \E v \in {"priority", "due", "created", "status"} : SetSortBy(v)
    \/ \E v \in {"desc", "asc"} : SetSortDir(v)

SpecQuery == InitQuery /\ [][NextQuery]_vars

(***************************************************************************)
(* Claims                                                                  *)
(***************************************************************************)
hasDue(t) == Get(t, "due") \notin {Undefined, ""}

\* C1: sorted by due, every task with no due date comes after every task that
\* has one, in both directions.
C1_NoDueLast ==
    sortBy = "due" =>
        \A i, j \in DOMAIN sorted : (~hasDue(sorted[i]) /\ hasDue(sorted[j])) => j < i


C1_DescendingPutsNoDueFirst ==
    /\ mounted /\ sortBy = "due" /\ sortDir = "desc" /\ Len(sorted) = 2
    /\ ~hasDue(sorted[1]) /\ hasDue(sorted[2])

\* C7: the statistics count the whole in-memory collection (total its size, done
\* the tasks with status Done, high the tasks with priority High or Urgent),
\* whatever the text, priority and status filters are; with one Normal/Todo task
\* and the priority filter High the view is empty, total is 1 and high is 0.
C7_StatsOverWholeCollection ==
    /\ stats.total = Len(tasks)
    /\ stats.done = Cardinality({i \in DOMAIN tasks : tasks[i].status = "Done"})
    /\ stats.high = Cardinality({i \in DOMAIN tasks : tasks[i].priority \in {"High", "Urgent"}})
    /\ (/\ Len(tasks) = 1 /\ tasks[1].priority = "Normal" /\ tasks[1].status = "Todo"
        /\ priorityFilter = "High")
       => (sorted = <<>> /\ stats.total = 1 /\ stats.high = 0)

C7_FilteredOutTaskIsCounted ==
    /\ mounted /\ Len(tasks) = 1 /\ tasks[1].priority = "Normal" /\ tasks[1].status = "Todo"
    /\ priorityFilter = "High" /\ sorted = <<>> /\ stats.total = 1 /\ stats.high = 0

sortKey(t) ==
    IF sortBy = "priority" THEN PRIORITY_ORDER[t.priority]
    ELSE IF sortBy = "status" THEN STATUS_ORDER[t.status]
    ELSE (CHOOSE n \in Clock : toISOString(n) = t.createdAt)

positionIn(arr, t) == CHOOSE i \in DOMAIN arr : arr[i] = t

\* C8: sorted by priority, status or created, the view is a permutation of the
\* filtered tasks, non-decreasing in the key when ascending and non-increasing
\* when descending, and tasks with equal keys keep the order they had in the
\* filtered collection in both directions.
C8_StableOrderedPermutation ==
    sortBy \in {"priority", "status", "created"} =>
        LET view == sorted
            from == filtered
        IN  /\ Len(view) = Len(from)
            /\ Range(view) = Range(from)
            /\ \A i, j \in DOMAIN view :
                  i < j =>
                    /\ sortDir = "asc" => sortKey(view[i]) <= sortKey(view[j])
                    /\ sortDir = "desc" => sortKey(view[i]) >= sortKey(view[j])
                    /\ sortKey(view[i]) = sortKey(view[j])
                          => positionIn(from, view[i]) < positionIn(from, view[j])

C8_UrgentTieKeepsOrder ==
    /\ sortBy = "priority" /\ sortDir = "desc" /\ Len(filtered) = 4
    /\ [i \in 1 .. 4 |-> filtered[i].priority] = <<"Low", "Urgent", "Normal", "Urgent">>
    /\ [i \in 1 .. 4 |-> sorted[i].priority] = <<"Urgent", "Urgent", "Normal", "Low">>
    /\ sorted[1] = filtered[2] /\ sorted[2] = filtered[4]


TaskFields == {"id", "title", "notes", "priority", "status", "due", "createdAt"}

C3_CloudWritesLeaveCollection ==
    [][ (user # NoUser /\ user' = user /\ tasks' # tasks)
            => (OnNext \/ \E u \in Users : FetchDone(u)) ]_vars

C3_RemovedTaskStillListed ==
    /\ user # NoUser /\ hist.op = "removeTask" /\ hist.id \in ids(tasks)
    /\ pending # <<>> /\ pending[1].op = "delete" /\ pending[1].id = hist.id

\* the local store holds the collection after a step whose save did not fail
savedAfter == outcome'.write # "failed" => store' = JSONstringify(tasks')

\* C4: with no identity present, upsert (create or edit), remove and toggleDone
\* each take effect on the in-memory collection, and afterwards the local store
\* holds exactly the in-memory collection (unless the storage write itself failed).
C4_LocalOpsApplyAndPersist ==
    [][ user = NoUser =>
          /\ \A f \in formInputs :
                (SubmitForm(f) /\ trim(f.title) # "") =>
                    /\ savedAfter
                    /\ IF editing = NoId
                       THEN /\ Len(tasks') = Len(tasks) + 1
                            /\ tasks'[1].title = trim(f.title)
                       ELSE \E i \in DOMAIN tasks' :
                                /\ tasks'[i].id = editing
                                /\ tasks'[i].title = f.title
                                /\ tasks'[i].notes = f.notes
                                /\ tasks'[i].priority = f.priority
                                /\ tasks'[i].status = f.status
          /\ \A id \in ids(tasks) :
                removeTask(id) => (id \notin ids(tasks') /\ savedAfter)
          /\ \A id \in ids(tasks) :
                toggleDone(id) =>
                    /\ statusOf(tasks', id) = toggledStatus(statusOf(tasks, id))
                    /\ savedAfter ]_vars

\* C5: the in-memory collection holds only tasks of the current regime's source:
\* while identity U is present only tasks delivered from U's remote collection,
\* while no identity is present no task of any remote collection.
C5_OnlyCurrentSource ==
    tasks # <<>> => taskSource = (IF user = NoUser THEN "local" ELSE user)

\* C6: the ids of the tasks in the in-memory collection are pairwise distinct.
C6_IdsDistinct ==
    \A i, j \in DOMAIN tasks : i # j => Get(tasks[i], "id") # Get(tasks[j], "id")

\* C9: in the local regime, exporting the collection and then importing the
\* exported file yields the same tasks in the same order, each with the same id,
\* title, notes, priority, status, due and createdAt.
C9_ExportImportRoundTrip ==
    [][ (build = "local" /\ download = JSONstringify(tasks) /\ importJSON(download))
            => /\ Len(tasks') = Len(tasks)
               /\ \A i \in DOMAIN tasks : \A k \in TaskFields :
                      Get(tasks'[i], k) = Get(tasks[i], k) ]_vars

\* C10: importing a file that is not valid JSON, or whose top-level value is not
\* a sequence, is rejected with a reported error; the in-memory collection, the
\* local store and the remote collection (the writes sent to it included) are
\* as they were before the import.
C10_InvalidImportRejected ==
    [][ \A file \in importable :
            (file.shape \in {"malformed", "object"} /\ importJSON(file))
                => /\ tasks' = tasks /\ store' = store
                   /\ remote' = remote /\ pending' = pending
                   /\ alertMsg' = "Could not import" ]_vars

C10_RejectedWithTasksKept ==
    /\ hist.op = "importJSON" /\ alertMsg = "Could not import"
    /\ tasks # <<>> /\ store = JSONstringify(tasks)

\* a value that is present and, coerced to a string, is not the empty string
nonEmpty(v) == v # Undefined /\ v # NoUser /\ String(v) # ""

\* C11: on import of a sequence a record is accepted exactly when it has a
\* non-empty id and a non-empty title; the other records are dropped and each
\* accepted record yields one task, in file order, whose id and title are the
\* record's values coerced to strings.
C11_ImportAcceptsNonEmptyIdTitle ==
    [][ \A file \in importable :
            (build = "local" /\ file.shape = "array" /\ importJSON(file)) =>
                LET want == FilterSeq(file.items,
                                {i \in DOMAIN file.items :
                                    /\ nonEmpty(Get(file.items[i], "id"))
                                    /\ nonEmpty(Get(file.items[i], "title"))})
                IN  /\ Len(tasks') = Len(want)
                    /\ \A i \in DOMAIN want :
                          /\ tasks'[i].id = String(want[i].id)
                          /\ tasks'[i].title = String(want[i].title) ]_vars

\* C12: for every accepted import record, priority is the record's value when it
\* is one of the four priorities and Normal otherwise, status the record's value
\* when it is one of the three statuses and Todo otherwise, notes defaults to
\* the empty string, due is kept when present and omitted otherwise, createdAt
\* is kept when present and otherwise the current time, updatedAt is the
\* current time.
C12_ImportDefaults ==
    [][ \A file \in importable :
            (build = "local" /\ file.shape = "array" /\ importJSON(file)) =>
                LET kept == FilterSeq(file.items,
                                {i \in DOMAIN file.items : acceptsRecord(file.items[i])})
                IN  /\ Len(tasks') = Len(kept)
                    /\ \A i \in DOMAIN kept :
                          LET d == kept[i]
                              t == tasks'[i]
                          IN  /\ t.priority = IF Get(d, "priority") \in
                                                   {"Low", "Normal", "High", "Urgent"}
                                              THEN d.priority ELSE "Normal"
                              /\ t.status = IF Get(d, "status") \in
                                                 {"Todo", "In Progress", "Done"}
                                            THEN d.status ELSE "Todo"
                              /\ t.notes = IF Get(d, "notes") \in {Undefined, ""}
                                           THEN "" ELSE d.notes
                              /\ Get(t, "due") = IF Get(d, "due") \in {Undefined, ""}
                                                 THEN Undefined ELSE d.due
                              /\ t.createdAt = IF Get(d, "createdAt") \in {Undefined, ""}
                                               THEN toISOString(now) ELSE d.createdAt
                              /\ t.updatedAt = toISOString(now) ]_vars

C12_ImportedWithDefaults ==
    /\ build = "local" /\ hist.op = "importJSON" /\ hist.was = "file" /\ now > 0
    /\ Len(tasks) = 2
    /\ tasks[1].id = "x" /\ tasks[1].priority = "Normal" /\ tasks[1].status = "Done"
    /\ tasks[1].notes = "" /\ tasks[1].due = "2024-05-01"
    /\ tasks[1].createdAt = toISOString(0) /\ tasks[1].updatedAt = toISOString(now)
    /\ tasks[2].priority = "High" /\ tasks[2].status = "Todo" /\ tasks[2].notes = "n"
    /\ tasks[2].due = Undefined /\ tasks[2].createdAt = toISOString(now)

\* C13: a successful import in the local regime replaces the whole in-memory
\* collection by exactly the accepted records; in the cloud regime it leaves
\* the tasks in place and creates one task in the current identity's remote
\* collection for each accepted record, carrying that record's fields.
C13_ImportReplacesOrAppends ==
    [][ \A file \in importable :
            (file.shape = "array" /\ importJSON(file)) =>
                LET acc == clean(file.items, toISOString(now))
                IN  /\ build = "local" => tasks' = acc
                    /\ user # NoUser =>
                          /\ tasks' = tasks
                          /\ Len(pending') = Len(pending) + Len(acc)
                          /\ \A i \in DOMAIN acc :
                                LET w == pending'[Len(pending) + i]
                                IN  /\ w.path = user /\ w.op = "add"
                                    /\ Get(w.data, "title") = acc[i].title
                                    /\ Get(w.data, "priority") = acc[i].priority
                                    /\ Get(w.data, "status") = acc[i].status ]_vars

\* C14: an upsert or remove whose write fails (the local storage write in the
\* local regime, a rejected remote write in the cloud regime) reports that
\* failure to its caller.
C14_FailedWriteReported ==
    (outcome.op \in {"upsertTask", "removeTask"} /\ outcome.write = "failed")
        => outcome.raised # ""

\* C15: createTask, updateTask and deleteTaskCloud called with an absent or
\* empty identity fail with an error and send no write; the remote collection
\* is unchanged.
C15_NoIdentityNoWrite ==
    [][ \A uidArg \in {Undefined, NoUser, ""} :
            ( \/ \E task \in ChannelTasks : createTask(uidArg, task)
              \/ \E id \in ChannelIds, updates \in ChannelUpdates : updateTask(uidArg, id, updates)
              \/ \E id \in ChannelIds : deleteTaskCloud(uidArg, id) )
                => /\ pending' = pending
                   /\ remote' = remote
                   /\ outcome'.raised # "" ]_vars

C15_CalledWithoutIdentity ==
    /\ outcome.op \in {"createTask", "updateTask", "deleteTaskCloud"}
    /\ outcome.write = "none" /\ outcome.raised = outcome.op \o ": uid required"
    /\ pending = <<>> /\ remote = InitRemote

\* C18: every create stores createdAt and updatedAt equal to the time of the
\* write and every update stores updatedAt equal to the time of the write,
\* whatever createdAt / updatedAt the caller put in the task or partial fields.
C18_TimestampsStampedAtWrite ==
    [][ \A uidArg \in Users :
          /\ \A task \in ChannelTasks :
                (createTask(uidArg, task) /\ pending' # pending) =>
                    LET w == pending'[Len(pending')]
                    IN  /\ w.data.createdAt = toISOString(now)
                        /\ w.data.updatedAt = toISOString(now)
          /\ \A id \in ChannelIds, updates \in ChannelUpdates :
                (updateTask(uidArg, id, updates) /\ pending' # pending) =>
                    pending'[Len(pending')].data.updatedAt = toISOString(now) ]_vars

C18_CallerTimestampsOverridden ==
    /\ pending # <<>> /\ pending[1].by = "" /\ pending[1].op = "add"
    /\ Get(pending[1].data, "title") = "ts"
    /\ toISOString(now) # CallerTime
    /\ pending[1].data.createdAt = toISOString(now)
    /\ pending[1].data.updatedAt = toISOString(now)

\* C20: once a task is created its createdAt never changes; no update of the
\* task, with any partial fields, alters it.
C20_CreatedAtImmutable ==
    [][ \A p \in Users : \A d \in DOMAIN remote[p] \cap DOMAIN remote'[p] :
            "createdAt" \in DOMAIN remote[p][d]
                => Get(remote'[p][d], "createdAt") = remote[p][d].createdAt ]_vars

\* C16: when the live subscription fails exactly one one-shot fetch is made;
\* once its result has replaced the collection, the collection does not change
\* again until a new subscription is opened by an identity change.
C16_OneFetchThenQuiet ==
    [][ /\ ListenError => fetching'[sub] = fetching[sub] + 1
        /\ (user # NoUser /\ user' = user /\ sub = NoUser /\ sub' = NoUser
                /\ fetching[user] = 0)
              => tasks' = tasks ]_vars

C19_UpdatedNotBeforeCreated ==
    \A i \in DOMAIN tasks :
        Sign(Minus(getTime(Get(tasks[i], "updatedAt")),
                   getTime(Get(tasks[i], "createdAt")))) >= 0

\* C21: toggleDone(id) on a task of the collection sets its status to Done when
\* it is not Done and to Todo when it is Done, and changes nothing but status
\* and updatedAt of that task (in the cloud regime: sends exactly that update
\* for that id); when no task has the id, the collection, the remote store and
\* the writes sent are unchanged and no error is raised.
C21_ToggleStatus ==
    [][ \A id \in ids(tasks) \cup {GoneId} :
          toggleDone(id) =>
            LET new(st) == IF st = "Done" THEN "Todo" ELSE "Done"
            IN  IF id \notin ids(tasks)
                THEN /\ tasks' = tasks /\ remote' = remote /\ pending' = pending
                     /\ outcome'.raised = ""
                ELSE IF user = NoUser
                THEN /\ DOMAIN tasks' = DOMAIN tasks
                     /\ \A i \in DOMAIN tasks :
                          IF tasks[i].id = id
                          THEN /\ DOMAIN tasks'[i] = DOMAIN tasks[i] \cup {"updatedAt"}
                               /\ tasks'[i].status = new(tasks[i].status)
                               /\ tasks'[i].updatedAt = toISOString(now)
                               /\ \A k \in DOMAIN tasks[i] \ {"status", "updatedAt"} :
                                      tasks'[i][k] = tasks[i][k]
                          ELSE tasks'[i] = tasks[i]
                ELSE /\ tasks' = tasks /\ remote' = remote
                     /\ Len(pending') = Len(pending) + 1
                     /\ LET w == pending'[Len(pending')]
                        IN  /\ w.path = user /\ w.op = "set" /\ w.id = id
                            /\ DOMAIN w.data = {"status", "updatedAt"}
                            /\ w.data.status = new(statusOf(tasks, id))
                            /\ w.data.updatedAt = toISOString(now) ]_vars

\* the original C22. The filtered view is the tasks, in collection order, whose
\* title followed directly by the notes contains the text filter (case ignored;
\* the empty filter matches every task) and whose priority and status equal the
\* selected values (or the selection is All).
C22_FilteredByTitleNotes ==
    mounted =>
        filtered = FilterSeq(tasks,
            {i \in DOMAIN tasks :
                /\ q = "" \/ includes(toLowerCase(tasks[i].title \o tasks[i].notes),
                                      toLowerCase(q))
                /\ priorityFilter \in {"All", tasks[i].priority}
                /\ statusFilter \in {"All", tasks[i].status}})

\* C22 (amended): the filtered view is the tasks, in collection order, for which
\* the title, one space and the notes, joined in that order, contain the text
\* filter (case ignored; a filter that is empty or only white space matches every
\* task) and whose priority and status equal the selected values (or the
\* selection is All).
C22_FilteredByTitleSpaceNotes ==
    mounted =>
        filtered = FilterSeq(tasks,
            {i \in DOMAIN tasks :
                /\ \/ \A k \in 1 .. Len(q) : SubSeq(q, k, k) = " "
                   \/ includes(toLowerCase(tasks[i].title \o " " \o tasks[i].notes),
                               toLowerCase(q))
                /\ priorityFilter \in {"All", tasks[i].priority}
                /\ statusFilter \in {"All", tasks[i].status}})

C22_AllThreeFiltersApplied ==
    /\ mounted /\ q = "B a" /\ priorityFilter = "Low" /\ statusFilter = "Done"
    /\ ids(tasks) = {"K1", "K2", "K3", "K5"} /\ Len(tasks) = 4
    /\ Len(filtered) = 1 /\ filtered[1].id = "K2"

\* C23: the connectivity status is Offline when there is no connectivity,
\* Syncing when there is connectivity and a write of the user is not yet
\* acknowledged, and Online otherwise (once the status listener has received
\* the snapshot that is due to it).
C23_StatusReflectsConnectivity ==
    (user # NoUser /\ ~snapshotDue) =>
        status = (IF ~online THEN "Offline"
                  ELSE IF hasPendingWrites(user) THEN "Syncing" ELSE "Online")

\* C24: in the cloud regime an upsert made while offline is accepted (its write
\* is queued), the status reads Syncing for as long as the write of an upsert is
\* unacknowledged, and the new task appears in the in-memory collection only
\* through a delivery of the subscription.
C24_OfflineUpsertQueuedAndSyncing ==
    [][ /\ \A f \in CloudFormInputs :
              (user # NoUser /\ ~online /\ trim(f.title) # "" /\ SubmitForm(f))
                  => (Len(pending') = Len(pending) + 1 /\ tasks' = tasks)
        /\ ( /\ user # NoUser /\ ~snapshotDue
             /\ \E i \in DOMAIN pending :
                    pending[i].by = "upsertTask" /\ pending[i].path = user )
              => status = "Syncing"
        /\ (user # NoUser /\ user' = user /\ ids(tasks') \ ids(tasks) # {})
              => (OnNext \/ \E u \in Users : FetchDone(u)) ]_vars

\* C25: loading from the local store yields the persisted collection when the
\* stored content parses and the empty collection when the store is empty or
\* its content does not parse; after a parse failure startup goes on and no
\* error reaches the caller.
C25_LoadFromStore ==
    [][ LoadEffect =>
            /\ store.shape = "array" => boot'.queued = Append(boot.queued, store.items)
            /\ store.shape \in {"absent", "malformed"}
                  => (boot'.queued = boot.queued /\ tasks' = <<>>)
            /\ boot'.pc \in {"save", "save2"} /\ outcome'.raised = "" ]_vars

C25_SessionGoesOnAfterParseFailure ==
    /\ boot.was = Malformed /\ boot.pc = "done" /\ mounted
    /\ hist.op = "upsertTask" /\ Len(tasks) = 1

\* C28: once the load and save steps of startup have run, also when they are run
\* twice in a row, the in-memory collection and the local store both equal the
\* collection that was persisted before startup (no save having failed).
C28_StartupRestoresPersisted ==
    (boot.pc = "done" /\ hist = NoHist /\ ~boot.failed) =>
        /\ tasks = (IF boot.was.shape = "array" THEN boot.was.items ELSE <<>>)
        /\ store = JSONstringify(tasks)

\* C26: in the cloud regime every task a delivery puts into the in-memory
\* collection has as its id the id of the remote document it was read from,
\* whatever fields the document holds, and a remove or toggle of a task of an
\* up-to-date collection sends its write to a document of the remote collection.
C26_IdIsRemoteId ==
    [][ /\ OnNext =>
              \A i \in DOMAIN tasks' :
                  /\ tasks'[i].id \in DOMAIN localView(sub)
                  /\ \A k \in DOMAIN localView(sub)[tasks'[i].id] \ {"id"} :
                         Get(tasks'[i], k) = localView(sub)[tasks'[i].id][k]
        /\ \A id \in ids(tasks) :
              ( /\ user # NoUser /\ tasks = snapshotTasks(localView(user))
                /\ removeTask(id) \/ toggleDone(id)
                /\ Len(pending') = Len(pending) + 1 )
                  => pending'[Len(pending')].id \in DOMAIN localView(user) ]_vars

\* C27: in the cloud regime, when toggleDone(id) has been called twice in a row
\* for a task whose remote status was Todo or Done and the remote store has
\* applied the first call's write, applying the second call's write leaves the
\* remote task with the status it had before the first call, whether or not the
\* subscription delivered between the two calls.
C27_CloudToggleTwiceRestores ==
    [][ ( /\ build = "cloud" /\ user # NoUser
          /\ hist.op = "toggleDone" /\ hist.n = 2 /\ hist.stored \in {"Todo", "Done"}
          /\ Len(pending) = 1
          /\ pending[1].by = "toggleDone" /\ pending[1].id = hist.id
          /\ pending[1].path = user
          /\ hist.id \in DOMAIN remote[user]
          /\ Get(remote[user][hist.id], "status") = toggledStatus(hist.stored)
          /\ Commit )
            => Get(remote'[user][hist.id], "status") = hist.stored ]_vars

\* C29: in the cloud regime, when the remote store applies an update that
\* upsertTask (editing) or toggleDone sent for an id its collection does not
\* hold, the collection holds no task with that id afterwards.
C29_UpdateCreatesNoTask ==
    [][ ( /\ build = "cloud" /\ pending # <<>>
          /\ Head(pending).op = "set"
          /\ Head(pending).by \in {"upsertTask", "toggleDone"}
          /\ Head(pending).id \notin DOMAIN remote[Head(pending).path]
          /\ Commit )
            => Head(pending).id \notin DOMAIN remote'[Head(pending).path] ]_vars

\* the due date of the task with this id (undefined when it has none)
dueOf(arr, id) ==
    IF id \in ids(arr)
    THEN Get(arr[CHOOSE i \in DOMAIN arr : Get(arr[i], "id") = id], "due")
    ELSE Undefined

\* C30: in the local regime, submitting the form for a task being edited gives
\* the task the due date of the form; a form submitted with an empty due date
\* leaves the task without a due date.
C30_EditSetsDue ==
    [][ \A f \in FormInputs :
            ( /\ build = "local" /\ editing \in ids(tasks) /\ trim(f.title) # ""
              /\ SubmitForm(f) )
                => dueOf(tasks', editing) = (IF f.due = "" THEN Undefined ELSE f.due) ]_vars

=============================================================================
